---- MODULE Spec2Model ----
(***************************************************************************)
(* Amana Bookstore: the cart, book and review services over the document   *)
(* store, and the route handlers that call them.                           *)
(*                                                                         *)
(* Every storage round-trip (findOne, insertOne, findOneAndUpdate,         *)
(* deleteOne, deleteMany, find) is one atomic step.  A service function    *)
(* that awaits several round-trips is several steps, and steps of          *)
(* different in-flight calls interleave.                                   *)
(***************************************************************************)
EXTENDS Integers, Sequences, FiniteSets, TLC

\* ------------------------------------------------------------------ bounds
Procs == {1, 2}          \* calls that may be in flight together
MaxInserts == 2          \* insertOne calls on the cart collection
MaxInput == 1            \* largest whole quantity a caller sends
MaxQuantity == 2         \* largest whole quantity a merge is started towards
MaxBooks == 2            \* insertOne calls on the books collection
MaxReviews == 1          \* insertOne calls on the reviews collection
MaxClients == 2          \* clients MongoClient.connect creates
MaxFetches == 2          \* fetches of the Navbar in flight together
ConnCallers == {1, 2, 3} \* callers of connectToDatabase
FetchIds == 1..MaxFetches

\* -------------------------------------------------------------- identifiers
Rep(x, n) == [i \in 1..n |-> x]

LowerHex == <<"0","1","2","3","4","5","6","7","8","9","a","b","c","d","e","f">>
UpperHex == <<"A","B","C","D","E","F">>

\* value of a hexadecimal character, -1 for any other character
NibbleOf(ch) ==
  IF \E i \in 1..16 : LowerHex[i] = ch
    THEN (CHOOSE i \in 1..16 : LowerHex[i] = ch) - 1
    ELSE IF \E i \in 1..6 : UpperHex[i] = ch
      THEN (CHOOSE i \in 1..6 : UpperHex[i] = ch) + 9
      ELSE -1

\* ObjectId.isValid on a string: 24 hexadecimal characters
ObjectIdIsValid(raw) ==
  /\ Len(raw) = 24
  /\ \A i \in 1..Len(raw) : NibbleOf(raw[i]) # -1

\* new ObjectId(raw): the 24 nibbles of the string
NewObjectId(raw) == [i \in 1..Len(raw) |-> NibbleOf(raw[i])]

\* _id.toHexString(): lower-case hexadecimal
ToHexString(oid) == [i \in 1..Len(oid) |-> LowerHex[oid[i] + 1]]

\* the n-th identifier the driver generates for an inserted cart document
GenOid(n) == <<6>> \o Rep(0, 22) \o <<n>>

\* the n-th identifier generated for an inserted book, an inserted review
GenBookOid(n) == <<11>> \o Rep(0, 22) \o <<n>>
GenReviewOid(n) == <<12>> \o Rep(0, 22) \o <<n>>

\* external identifiers callers send
BookA == <<"b">> \o Rep("0", 22) \o <<"1">>
BookB == <<"B">> \o Rep("0", 22) \o <<"2">>
Malformed == <<"B", "1">>
Missing == <<>>

BookIds == {BookA, BookB, Malformed}
CartItemIds == {ToHexString(GenOid(n)) : n \in 1..MaxInserts} \cup {Malformed}

\* ------------------------------------------------------------------ numbers
\* a JS number is kept as its count of halves, so that 0.5 is a value
Num(n) == 2 * n
IsInteger(x) == x % 2 = 0
IsPositiveInteger(x) == x > 0 /\ IsInteger(x)

\* quantities the typed service functions are called with
Quantities == {Num(n) : n \in -1..MaxInput}
\* quantities of a JSON body: a number (possibly fractional), a string, or absent
JsonNumber(x) == [t |-> "number", n |-> x]
JsonWhole ==
  {JsonNumber(x) : x \in Quantities} \cup
  {[t |-> "string", n |-> Num(1)], [t |-> "undefined", n |-> 0]}
JsonHalf == JsonNumber(Num(1) \div 2)
JsonQuantities == JsonWhole \cup {JsonHalf}
\* the quantity the home page sends
OneCopy == JsonNumber(Num(1))

VARIABLES cart, nextOid, clock, proc, last,
          books, reviews, nextBookOid, nextReviewOid, creating, view,
          conn, navbar

vars == <<cart, nextOid, clock, proc, last,
          books, reviews, nextBookOid, nextReviewOid, creating, view,
          conn, navbar>>
cartVars == <<cart, nextOid, clock, proc>>
catalogVars == <<books, reviews, nextBookOid, nextReviewOid, creating>>

\* ------------------------------------------------------------ cart service
\* mapMongoId of the cart service: _id and bookId rendered as hex strings
CartMapMongoId(doc) ==
  [id |-> ToHexString(doc._id), bookId |-> ToHexString(doc.bookId),
   quantity |-> doc.quantity, addedAt |-> doc.addedAt]

\* getCart: every document, mapped
GetCartResult(c) == {CartMapMongoId(d) : d \in c}

\* collection.findOne({ bookId }): the documents the filter matches
FindByBookId(c, oid) == {d \in c : d.bookId = oid}

\* collection.findOne({ _id })
FindById(c, oid) == {d \in c : d._id = oid}

\* mutant of NewQuantity: the merge overwrites instead of adding
NewQuantityOverwrites(existing, quantity) == quantity

\* newQuantity = existingItem.quantity + itemData.quantity
NewQuantity(existing, quantity) == existing.quantity + quantity

\* mutant of SetQuantity: the update adds to the stored quantity
SetQuantityAdds(c, oid, quantity) ==
  {IF d._id = oid THEN [d EXCEPT !.quantity = @ + quantity] ELSE d : d \in c}

\* mutant of SetQuantity: the filter is {}, as by updateMany({}, { $set })
SetQuantityOfAll(c, oid, quantity) ==
  {[d EXCEPT !.quantity = quantity] : d \in c}

\* findOneAndUpdate({ _id }, { $set: { quantity } }): the collection afterwards
SetQuantity(c, oid, quantity) ==
  {IF d._id = oid THEN [d EXCEPT !.quantity = quantity] ELSE d : d \in c}

\* newItemDocument, stored under the generated _id
NewItemDocument(oid, bookOid, quantity, now) ==
  [_id |-> oid, bookId |-> bookOid, quantity |-> quantity, addedAt |-> now]

\* deleteOne({ _id }): the collection afterwards
DeleteOne(c, oid) == {d \in c : d._id # oid}

\* mutant of DeleteMany: one document is deleted, as by deleteOne({})
DeleteManyDeletesOne(c) ==
  IF c = {} THEN {} ELSE c \ {CHOOSE d \in c : TRUE}

\* deleteMany({}): the collection afterwards
DeleteMany(c) == {}

\* ------------------------------------------------------- results of a call
NoQuantity == [t |-> "undefined", n |-> 0]
Returned(kind, lines, n, msg) ==
  [kind |-> kind, lines |-> lines, n |-> n, msg |-> msg]
RetLine(doc) == Returned("line", {CartMapMongoId(doc)}, 0, "")
RetList(c) == Returned("list", GetCartResult(c), 0, "")
RetNull == Returned("null", {}, 0, "")
RetBool(b) == Returned(IF b THEN "true" ELSE "false", {}, 0, "")
RetCount(n) == Returned("count", {}, n, "")
RetThrow(msg) == Returned("throw", {}, 0, msg)
RetNone == Returned("none", {}, 0, "")

NoResponse == [status |-> 0, message |-> "none"]
Response(status, message) == [status |-> status, message |-> message]

\* the fields of a request body or of an updates argument; none by default
NoBody == <<>>

\* a completed call: what was asked, what came back, the round-trips issued,
\* whether its last round-trip changed the collection
Completed(op, via, id, quantity, ret, resp, ops, changed) ==
  [op |-> op, via |-> via, id |-> id, quantity |-> quantity, ret |-> ret,
   resp |-> resp, ops |-> ops, changed |-> changed, body |-> NoBody,
   seq |-> 0]

\* a completed call that was given the fields of body
WithBody(c, body) == [c EXCEPT !.body = body]

Nothing ==
  Completed("none", "none", Missing, NoQuantity, RetNone, NoResponse, 0, FALSE)

\* the catalog call in flight between two of its round-trips
InFlightCall(kind, oid, via, id, body) ==
  [kind |-> kind, oid |-> oid, via |-> via, id |-> id, body |-> body]

NotCreating == InFlightCall("none", <<>>, "none", Missing, NoBody)

Idle ==
  [pc |-> "idle", via |-> "none", bookId |-> Missing, quantity |-> 0,
   existingItem |-> {}, insertedId |-> <<>>, ops |-> 0]

\* the page handler that awaits a response; events flips at every dispatch
\* of cartUpdated
NoView == [pc |-> "idle", handler |-> "none", events |-> 0]

\* mongodb.ts: the cached client and db, null (0) until a connection is
\* cached; the clients MongoClient.connect has created; for every caller of
\* connectToDatabase its position and the handles its last call returned
NoHandles == [client |-> 0, db |-> 0]
NoConn ==
  [cachedClient |-> 0, cachedDb |-> 0, clients |-> 0,
   call |-> [c \in ConnCallers |-> [pc |-> "idle", returned |-> NoHandles]]]

\* a fetch of the Navbar: not issued, sent, or answered and on its way back
NoFetch == [pc |-> "free", status |-> 0, data |-> {}]

\* the Navbar before its effect has run: useState(0), useState(true)
NoNavbar ==
  [mounted |-> FALSE, cartItemCount |-> 0, loading |-> TRUE,
   fetch |-> [i \in FetchIds |-> NoFetch]]

\* the most recent completed call; seq flips at every completion
Record(c) == last' = [c EXCEPT !.seq = 1 - last.seq]

Init ==
  /\ cart = {}
  /\ nextOid = 1
  /\ clock = 0
  /\ proc = [p \in Procs |-> Idle]
  /\ last = Nothing
  /\ books = {}
  /\ reviews = {}
  /\ nextBookOid = 1
  /\ nextReviewOid = 1
  /\ creating = NotCreating
  /\ view = NoView
  /\ conn = NoConn
  /\ navbar = NoNavbar

InFlight == {p \in Procs : proc[p].pc # "idle"}
AllIdle == InFlight = {}

\* the process that runs the calls when they are made one at a time
Caller == {CHOOSE p \in Procs : TRUE}

Finish(p, ret, resp, changed) ==
  /\ Record(Completed("add", proc[p].via, proc[p].bookId,
                      JsonNumber(proc[p].quantity), ret, resp,
                      proc[p].ops + 1, changed))
  /\ proc' = [proc EXCEPT ![p] = Idle]

\* ------------------------------------------------------------ addCartItem
\* mutant of PostResponse: the catch block answers like the success path
PostResponseCreated(ret) ==
  Response(201, "Item added/updated in cart successfully")

\* what the POST handler answers for the outcome of addCartItem
PostResponse(ret) ==
  IF ret.kind = "throw"
    THEN Response(500, "An error occurred while adding the item to the cart.")
    ELSE Response(201, "Item added/updated in cart successfully")

AddResponse(via, ret) == IF via = "route" THEN PostResponse(ret) ELSE NoResponse

\* mutant of AddRejects: the book id is not checked
AddRejectsNothing(bookId, quantity) == FALSE

\* the guard of addCartItem: the book id must be a valid ObjectId string
AddRejects(bookId, quantity) == ~ObjectIdIsValid(bookId)

\* the calls in flight that may still insert: they have not read a line
MayInsert == {p \in InFlight : proc[p].pc \in {"find", "insert"}}

\* keeps the model finite: the quantity a merge is allowed to write
MergeWithinBounds(existing, quantity) ==
  /\ NewQuantity(existing, quantity) <= Num(MaxQuantity)
  /\ NewQuantity(existing, quantity) >= Num(-1)

AddWithinBounds(bookId, quantity) ==
  /\ nextOid + Cardinality(MayInsert) <= MaxInserts
  /\ \A d \in FindByBookId(cart, NewObjectId(bookId)) :
       MergeWithinBounds(d, quantity)

\* addCartItem up to its first await on the collection
StartAdd(p, via, bookId, quantity) ==
  /\ proc[p].pc = "idle"
  /\ IF AddRejects(bookId, quantity)
       THEN /\ Record(Completed("add", via, bookId, JsonNumber(quantity),
                                RetThrow("Invalid Book ID"),
                                AddResponse(via, RetThrow("Invalid Book ID")),
                                0, FALSE))
            /\ UNCHANGED <<cart, nextOid, clock, proc>>
       ELSE /\ AddWithinBounds(bookId, quantity)
            /\ proc' = [proc EXCEPT ![p] =
                 [pc |-> "find", via |-> via, bookId |-> bookId,
                  quantity |-> quantity, existingItem |-> {},
                  insertedId |-> <<>>, ops |-> 0]]
            /\ UNCHANGED <<cart, nextOid, clock, last>>

\* a caller invokes addCartItem directly
CallAddCartItem(p) ==
  \E bookId \in BookIds, quantity \in Quantities :
    StartAdd(p, "direct", bookId, quantity)

\* the POST handler's validation of the request body
PostMissingFields(bookId, quantity) ==
  bookId = Missing \/ quantity.t = "undefined"

PostBadQuantity(bookId, quantity) ==
  quantity.t # "number" \/ quantity.n <= 0

\* POST /api/cart with the body { bookId, quantity }
PostCartRequest(p, bookId, quantity) ==
  IF PostMissingFields(bookId, quantity)
    THEN /\ Record(Completed("add", "route", bookId, quantity, RetNone,
                      Response(400, "Missing required fields: bookId, quantity"),
                      0, FALSE))
         /\ UNCHANGED <<cart, nextOid, clock, proc>>
    ELSE IF PostBadQuantity(bookId, quantity)
      THEN /\ Record(Completed("add", "route", bookId, quantity, RetNone,
                        Response(400, "Quantity must be a positive number"),
                        0, FALSE))
           /\ UNCHANGED <<cart, nextOid, clock, proc>>
      ELSE StartAdd(p, "route", bookId, quantity.n)

\* POST /api/cart
PostCart(p, Q) ==
  \E bookId \in BookIds \cup {Missing}, quantity \in Q :
    PostCartRequest(p, bookId, quantity)

\* const existingItem = await collection.findOne({ bookId })
AddFind(p) ==
  /\ proc[p].pc = "find"
  /\ LET hits == FindByBookId(cart, NewObjectId(proc[p].bookId))
     IN \E e \in (IF hits = {} THEN {{}} ELSE {{d} : d \in hits}) :
          /\ \A d \in e : MergeWithinBounds(d, proc[p].quantity)
          /\ proc' = [proc EXCEPT
                        ![p].existingItem = e,
                        ![p].pc = IF e = {} THEN "insert" ELSE "update",
                        ![p].ops = @ + 1]
  /\ UNCHANGED <<cart, nextOid, clock, last>>

\* mutant of AddUpdate: the update is { $inc: { quantity } }, which adds to
\* the quantity stored at the time of the write
AddUpdateIncrements(p) ==
  /\ proc[p].pc = "update"
  /\ LET e == CHOOSE d \in proc[p].existingItem : TRUE
         after == SetQuantityAdds(cart, e._id, proc[p].quantity)
         result == FindById(after, e._id)
         ret == IF result = {}
                  THEN RetThrow("Failed to update cart item")
                  ELSE RetLine(CHOOSE d \in result : TRUE)
     IN /\ cart' = after
        /\ Finish(p, ret, AddResponse(proc[p].via, ret), after # cart)
  /\ UNCHANGED <<nextOid, clock>>

\* await collection.findOneAndUpdate({ _id: existingItem._id }, { $set })
AddUpdate(p) ==
  /\ proc[p].pc = "update"
  /\ LET e == CHOOSE d \in proc[p].existingItem : TRUE
         newQuantity == NewQuantity(e, proc[p].quantity)
         after == SetQuantity(cart, e._id, newQuantity)
         result == FindById(after, e._id)
         ret == IF result = {}
                  THEN RetThrow("Failed to update cart item")
                  ELSE RetLine(CHOOSE d \in result : TRUE)
     IN /\ cart' = after
        /\ Finish(p, ret, AddResponse(proc[p].via, ret), after # cart)
  /\ UNCHANGED <<nextOid, clock>>

\* mutant of AddInsert: the insert is an upsert on { bookId }, so nothing is
\* inserted when a line for the book is stored by then
AddInsertUnlessPresent(p) ==
  /\ proc[p].pc = "insert"
  /\ nextOid <= MaxInserts
  /\ LET hits == FindByBookId(cart, NewObjectId(proc[p].bookId))
     IN IF hits = {}
          THEN /\ cart' = cart \cup {NewItemDocument(GenOid(nextOid),
                                   NewObjectId(proc[p].bookId),
                                   proc[p].quantity, clock)}
               /\ clock' = clock + 1
               /\ nextOid' = nextOid + 1
               /\ proc' = [proc EXCEPT ![p].insertedId = GenOid(nextOid),
                                       ![p].pc = "fetch", ![p].ops = @ + 1]
          ELSE /\ proc' = [proc EXCEPT
                             ![p].insertedId = (CHOOSE d \in hits : TRUE)._id,
                             ![p].pc = "fetch", ![p].ops = @ + 1]
               /\ UNCHANGED <<cart, clock, nextOid>>
  /\ UNCHANGED last

\* await collection.insertOne(newItemDocument)
AddInsert(p) ==
  /\ proc[p].pc = "insert"
  /\ nextOid <= MaxInserts
  /\ cart' = cart \cup {NewItemDocument(GenOid(nextOid),
                          NewObjectId(proc[p].bookId), proc[p].quantity, clock)}
  /\ clock' = clock + 1
  /\ nextOid' = nextOid + 1
  /\ proc' = [proc EXCEPT ![p].insertedId = GenOid(nextOid),
                          ![p].pc = "fetch", ![p].ops = @ + 1]
  /\ UNCHANGED last

\* const newItem = await collection.findOne({ _id: result.insertedId })
AddFetch(p) ==
  /\ proc[p].pc = "fetch"
  /\ LET newItem == FindById(cart, proc[p].insertedId)
         ret == IF newItem = {}
                  THEN RetThrow("Failed to create and retrieve cart item")
                  ELSE RetLine(CHOOSE d \in newItem : TRUE)
     IN Finish(p, ret, AddResponse(proc[p].via, ret), FALSE)
  /\ UNCHANGED <<cart, nextOid, clock>>

\* ---------------------------------------------------------- removeCartItem
Outcome(c, ret, ops) == [cart |-> c, ret |-> ret, ops |-> ops]

\* mutant of RemoveCartItem: the acknowledgement is returned, not the count
RemoveCartItemAcknowledged(c, cartItemId) ==
  IF ~ObjectIdIsValid(cartItemId)
    THEN Outcome(c, RetBool(FALSE), 0)
    ELSE Outcome(DeleteOne(c, NewObjectId(cartItemId)), RetBool(TRUE), 1)

\* removeCartItem(cartItemId): the collection afterwards, the value returned
RemoveCartItem(c, cartItemId) ==
  IF ~ObjectIdIsValid(cartItemId)
    THEN Outcome(c, RetBool(FALSE), 0)
    ELSE LET after == DeleteOne(c, NewObjectId(cartItemId))
             deletedCount == Cardinality(c) - Cardinality(after)
         IN Outcome(after, RetBool(deletedCount = 1), 1)

\* mutant of UpdateCartItemQuantity: only a negative quantity removes
UpdateCartItemQuantityStrict(c, cartItemId, quantity) ==
  IF ~ObjectIdIsValid(cartItemId)
    THEN Outcome(c, RetNull, 0)
    ELSE IF quantity < 0
      THEN Outcome(DeleteOne(c, NewObjectId(cartItemId)), RetNull, 1)
      ELSE LET oid == NewObjectId(cartItemId)
               after == SetQuantity(c, oid, quantity)
               result == FindById(after, oid)
           IN Outcome(after,
                      IF result = {} THEN RetNull
                                     ELSE RetLine(CHOOSE d \in result : TRUE),
                      1)

\* --------------------------------------------------- updateCartItemQuantity
UpdateCartItemQuantity(c, cartItemId, quantity) ==
  IF ~ObjectIdIsValid(cartItemId)
    THEN Outcome(c, RetNull, 0)
    ELSE IF quantity <= 0
      THEN LET removed == RemoveCartItem(c, cartItemId)
           IN Outcome(removed.cart, RetNull, removed.ops)
      ELSE LET oid == NewObjectId(cartItemId)
               after == SetQuantity(c, oid, quantity)
               result == FindById(after, oid)
           IN Outcome(after,
                      IF result = {} THEN RetNull
                                     ELSE RetLine(CHOOSE d \in result : TRUE),
                      1)

\* ----------------------------------------------------------------- clearCart
ClearCart(c) ==
  LET after == DeleteMany(c)
  IN Outcome(after, RetCount(Cardinality(c) - Cardinality(after)), 1)

\* one-round-trip call: apply its outcome and record it
Apply(op, via, id, quantity, out, resp) ==
  /\ cart' = out.cart
  /\ Record(Completed(op, via, id, quantity, out.ret, resp, out.ops,
                      out.cart # cart))
  /\ UNCHANGED <<nextOid, clock, proc>>

\* answered by a handler before any service function is called
Reject(op, id, quantity, resp) ==
  Apply(op, "route", id, quantity, Outcome(cart, RetNone, 0), resp)

CallUpdateCartItemQuantity ==
  \E cartItemId \in CartItemIds, quantity \in Quantities :
    Apply("update", "direct", cartItemId, JsonNumber(quantity),
          UpdateCartItemQuantity(cart, cartItemId, quantity), NoResponse)

CallRemoveCartItem ==
  \E cartItemId \in CartItemIds :
    Apply("remove", "direct", cartItemId, NoQuantity,
          RemoveCartItem(cart, cartItemId), NoResponse)

CallClearCart ==
  Apply("clear", "direct", Missing, NoQuantity, ClearCart(cart), NoResponse)

\* getCart, called directly or by GET /api/cart
CallGetCart ==
  \E via \in {"direct", "route"} :
    Apply("list", via, Missing, NoQuantity, Outcome(cart, RetList(cart), 1),
          IF via = "route" THEN Response(200, "cart items") ELSE NoResponse)

\* ------------------------------------------------------------ PUT /api/cart
PutMissingFields(cartItemId, quantity) ==
  cartItemId = Missing \/ quantity.t = "undefined"

PutBadQuantity(cartItemId, quantity) ==
  quantity.t # "number" \/ quantity.n < 0

\* the answer for the value updateCartItemQuantity returned
PutResponse(ret, quantity) ==
  IF ret.kind = "line"
    THEN Response(200, "Cart item updated successfully")
    ELSE IF quantity = 0
      THEN Response(200, "Cart item removed successfully (quantity set to 0)")
      ELSE Response(404, "Failed to update item. Item not found.")

\* PUT /api/cart with the body { cartItemId, quantity }
PutCartRequest(cartItemId, quantity) ==
  IF PutMissingFields(cartItemId, quantity)
    THEN Reject("update", cartItemId, quantity,
                Response(400, "Missing required fields: cartItemId, quantity"))
    ELSE IF PutBadQuantity(cartItemId, quantity)
      THEN Reject("update", cartItemId, quantity,
                  Response(400, "Quantity must be a non-negative number"))
      ELSE LET out == UpdateCartItemQuantity(cart, cartItemId, quantity.n)
           IN Apply("update", "route", cartItemId, quantity, out,
                    PutResponse(out.ret, quantity.n))

PutCart(Q) ==
  \E cartItemId \in CartItemIds \cup {Missing}, quantity \in Q :
    PutCartRequest(cartItemId, quantity)

\* --------------------------------------------------------- DELETE /api/cart
DeleteResponse(ret) ==
  IF ret.kind = "true"
    THEN Response(200, "Item removed from cart successfully")
    ELSE Response(404, "Failed to remove item. Item not found.")

\* DELETE /api/cart?cartItemId= or DELETE /api/cart?clear=
DeleteCartRequest(cartItemId, clear) ==
  IF cartItemId # Missing
    THEN LET out == RemoveCartItem(cart, cartItemId)
         IN Apply("remove", "route", cartItemId, NoQuantity, out,
                  DeleteResponse(out.ret))
    ELSE IF clear = "true"
      THEN Apply("clear", "route", Missing, NoQuantity, ClearCart(cart),
                 Response(200, "Cart cleared successfully."))
      ELSE Reject("remove", Missing, NoQuantity,
                  Response(400, "Missing cartItemId or clear=true parameter"))

DeleteCart ==
  \E cartItemId \in CartItemIds \cup {Missing}, clear \in {"true", "false"} :
    DeleteCartRequest(cartItemId, clear)

\* ------------------------------------------------------------ book service
\* a document's fields besides _id: a function from field names to values
BookFields == {"title", "price"}
ReviewFields == {"comment"}
Values == {<<"x">>, <<"y">>}
BookBodies == [BookFields -> Values]
ReviewBodies == [ReviewFields -> Values]
Partial(F) == UNION {[D -> Values] : D \in SUBSET F}

BookRequestIds == {ToHexString(GenBookOid(n)) : n \in 1..MaxBooks} \cup {Malformed}
ReviewRequestIds ==
  {ToHexString(GenReviewOid(n)) : n \in 1..MaxReviews} \cup {Malformed}

\* mutant of SetFields: the document's fields are replaced by the updates
SetFieldsReplaces(f, updates) == updates

\* { $set: updates } applied to the fields of a document
SetFields(f, updates) ==
  [k \in DOMAIN f \cup DOMAIN updates |->
     IF k \in DOMAIN updates THEN updates[k] ELSE f[k]]

\* mapMongoId of the book service: { id: _id.toHexString(), ...rest }
BookMapMongoId(doc) ==
  [k \in {"id"} \cup DOMAIN doc.f |->
     IF k \in DOMAIN doc.f THEN doc.f[k] ELSE ToHexString(doc._id)]

\* mapMongoId of the review service: id and bookId rendered as hex strings
ReviewMapMongoId(doc) ==
  [k \in {"id", "bookId"} \cup DOMAIN doc.f |->
     IF k = "bookId" THEN ToHexString(doc.bookId)
     ELSE IF k \in DOMAIN doc.f THEN doc.f[k] ELSE ToHexString(doc._id)]

RetDoc(mapped) == Returned("doc", {mapped}, 0, "")
RetDocs(mapped) == Returned("list", mapped, 0, "")

\* new ObjectId(id) on a string that is no ObjectId: the driver's error
BSONError == RetThrow("input must be a 24 character hex string")

\* mutant of GetBookById: the filter is { id } where it should be { _id }
GetBookByIdField(b, id) ==
  IF ~ObjectIdIsValid(id)
    THEN Outcome(b, RetNull, 0)
    ELSE LET document == {d \in b : "id" \in DOMAIN d.f /\ d.f["id"] = id}
         IN Outcome(b,
                    IF document = {} THEN RetNull
                    ELSE RetDoc(BookMapMongoId(CHOOSE d \in document : TRUE)),
                    1)

\* getBookById(id)
GetBookById(b, id) ==
  IF ~ObjectIdIsValid(id)
    THEN Outcome(b, RetNull, 0)
    ELSE LET document == FindById(b, NewObjectId(id))
         IN Outcome(b,
                    IF document = {} THEN RetNull
                    ELSE RetDoc(BookMapMongoId(CHOOSE d \in document : TRUE)),
                    1)

\* getAllBooks(): every document, mapped; the list is kept as a set
GetAllBooks(b) == Outcome(b, RetDocs({BookMapMongoId(d) : d \in b}), 1)

\* findOneAndUpdate({ _id }, { $set: updates }, { returnDocument: 'after' })
FindOneAndUpdateBook(b, oid, updates) ==
  LET after == {IF d._id = oid
                  THEN [d EXCEPT !.f = SetFields(d.f, updates)]
                  ELSE d : d \in b}
      result == FindById(after, oid)
  IN Outcome(after,
             IF result = {} THEN RetNull
             ELSE RetDoc(BookMapMongoId(CHOOSE d \in result : TRUE)),
             1)

\* mutant of UpdateBook: no isValid guard, so new ObjectId(id) throws
UpdateBookUnguarded(b, id, updates) ==
  IF ~ObjectIdIsValid(id)
    THEN Outcome(b, BSONError, 0)
    ELSE FindOneAndUpdateBook(b, NewObjectId(id), updates)

\* updateBook(id, updates)
UpdateBook(b, id, updates) ==
  IF ~ObjectIdIsValid(id)
    THEN Outcome(b, RetNull, 0)
    ELSE FindOneAndUpdateBook(b, NewObjectId(id), updates)

\* mutant of DeleteBook: deleteMany where it should be deleteOne
DeleteBookDeletesMany(b, id) ==
  IF ~ObjectIdIsValid(id)
    THEN Outcome(b, RetBool(FALSE), 0)
    ELSE Outcome(DeleteMany(b), RetBool(b # {}), 1)

\* deleteBook(id)
DeleteBook(b, id) ==
  IF ~ObjectIdIsValid(id)
    THEN Outcome(b, RetBool(FALSE), 0)
    ELSE LET after == DeleteOne(b, NewObjectId(id))
         IN Outcome(after, RetBool(Cardinality(b) - Cardinality(after) = 1), 1)

\* ---------------------------------------------------------- review service
\* getReviewById(id)
GetReviewById(r, id) ==
  IF ~ObjectIdIsValid(id)
    THEN Outcome(r, RetNull, 0)
    ELSE LET document == FindById(r, NewObjectId(id))
         IN Outcome(r,
                    IF document = {} THEN RetNull
                    ELSE RetDoc(ReviewMapMongoId(CHOOSE d \in document : TRUE)),
                    1)

\* getAllReviews(): every document, mapped; the list is kept as a set
GetAllReviews(r) == Outcome(r, RetDocs({ReviewMapMongoId(d) : d \in r}), 1)

\* mutant of GetReviewsByBookId: the find has no filter
GetReviewsByBookIdUnfiltered(r, bookId) ==
  IF ~ObjectIdIsValid(bookId)
    THEN Outcome(r, RetNull, 0)
    ELSE Outcome(r, RetDocs({ReviewMapMongoId(d) : d \in r}), 1)

\* getReviewsByBookId(bookId): null for a string that is no ObjectId
GetReviewsByBookId(r, bookId) ==
  IF ~ObjectIdIsValid(bookId)
    THEN Outcome(r, RetNull, 0)
    ELSE LET documents == FindByBookId(r, NewObjectId(bookId))
         IN Outcome(r, RetDocs({ReviewMapMongoId(d) : d \in documents}), 1)

\* updateReview(id, updates): bookId is the bookId of the updates, Missing
\* when they carry none; it is written only when it is a valid ObjectId
UpdateReview(r, id, bookId, restOfUpdates) ==
  IF ~ObjectIdIsValid(id)
    THEN Outcome(r, RetNull, 0)
    ELSE LET oid == NewObjectId(id)
             after ==
               {IF d._id = oid
                  THEN [d EXCEPT
                          !.f = SetFields(d.f, restOfUpdates),
                          !.bookId = IF bookId # Missing /\ ObjectIdIsValid(bookId)
                                       THEN NewObjectId(bookId) ELSE @]
                  ELSE d : d \in r}
             result == FindById(after, oid)
         IN Outcome(after,
                    IF result = {} THEN RetNull
                    ELSE RetDoc(ReviewMapMongoId(CHOOSE d \in result : TRUE)),
                    1)

\* deleteReview(id)
DeleteReview(r, id) ==
  IF ~ObjectIdIsValid(id)
    THEN Outcome(r, RetBool(FALSE), 0)
    ELSE LET after == DeleteOne(r, NewObjectId(id))
         IN Outcome(after, RetBool(Cardinality(r) - Cardinality(after) = 1), 1)

\* ----------------------------------------------------------- catalog calls
\* a one-round-trip call on the books collection, given the fields of body
BooksStep(op, via, id, body, out, resp) ==
  /\ books' = out.cart
  /\ Record(WithBody(Completed(op, via, id, NoQuantity, out.ret, resp,
                               out.ops, out.cart # books), body))
  /\ UNCHANGED <<reviews, nextBookOid, nextReviewOid, creating>>

\* a one-round-trip call on the reviews collection, given the fields of body
ReviewsStep(op, via, id, body, out, resp) ==
  /\ reviews' = out.cart
  /\ Record(WithBody(Completed(op, via, id, NoQuantity, out.ret, resp,
                               out.ops, out.cart # reviews), body))
  /\ UNCHANGED <<books, nextBookOid, nextReviewOid, creating>>

\* a service function called directly
ApplyBooks(op, id, out) == BooksStep(op, "direct", id, NoBody, out, NoResponse)
ApplyReviews(op, id, out) ==
  ReviewsStep(op, "direct", id, NoBody, out, NoResponse)

CallGetAllBooks == ApplyBooks("listBooks", Missing, GetAllBooks(books))

CallGetBookById ==
  \E id \in BookRequestIds : ApplyBooks("getBook", id, GetBookById(books, id))

CallUpdateBook ==
  \E id \in BookRequestIds, updates \in Partial(BookFields) :
    ApplyBooks("updateBook", id, UpdateBook(books, id, updates))

CallDeleteBook ==
  \E id \in BookRequestIds : ApplyBooks("deleteBook", id, DeleteBook(books, id))

CallGetAllReviews == ApplyReviews("listReviews", Missing, GetAllReviews(reviews))

CallGetReviewById ==
  \E id \in ReviewRequestIds :
    ApplyReviews("getReview", id, GetReviewById(reviews, id))

CallGetReviewsByBookId ==
  \E bookId \in BookIds :
    ApplyReviews("reviewsByBook", bookId, GetReviewsByBookId(reviews, bookId))

\* the updates argument of updateReview: restOfUpdates, and bookId when given
WithBookId(restOfUpdates, bookId) ==
  IF bookId = Missing
    THEN restOfUpdates
    ELSE [k \in {"bookId"} \cup DOMAIN restOfUpdates |->
            IF k = "bookId" THEN bookId ELSE restOfUpdates[k]]

CallUpdateReview ==
  \E id \in ReviewRequestIds, bookId \in {Missing, BookB, Malformed},
     updates \in Partial(ReviewFields) :
    ApplyReviews("updateReview", id, UpdateReview(reviews, id, bookId, updates))

CallDeleteReview ==
  \E id \in ReviewRequestIds :
    ApplyReviews("deleteReview", id, DeleteReview(reviews, id))

\* what POST /api/books answers for the outcome of createBook
PostBookResponse(ret) ==
  IF ret.kind = "throw"
    THEN Response(500, "An error occurred while inserting the book.")
    ELSE Response(200, "Book added successfully")

\* createBook: await collection.insertOne(bookData)
StartCreateBook(via, bookData) ==
  /\ creating.kind = "none"
  /\ nextBookOid <= MaxBooks
  /\ books' = books \cup {[_id |-> GenBookOid(nextBookOid), f |-> bookData]}
  /\ nextBookOid' = nextBookOid + 1
  /\ creating' = InFlightCall("book", GenBookOid(nextBookOid), via, Missing,
                              bookData)
  /\ UNCHANGED <<reviews, nextReviewOid, last>>

CreateBookInsert ==
  \E bookData \in BookBodies : StartCreateBook("direct", bookData)

\* createBook: await collection.findOne({ _id: result.insertedId })
CreateBookFetch ==
  /\ creating.kind = "book"
  /\ LET newBook == FindById(books, creating.oid)
         ret == IF newBook = {}
                  THEN RetThrow("Failed to create and retrieve the new book.")
                  ELSE RetDoc(BookMapMongoId(CHOOSE d \in newBook : TRUE))
     IN Record(WithBody(
          Completed("createBook", creating.via, ToHexString(creating.oid),
                    NoQuantity, ret,
                    IF creating.via = "route" THEN PostBookResponse(ret)
                                              ELSE NoResponse,
                    2, FALSE),
          creating.body))
  /\ creating' = NotCreating
  /\ UNCHANGED <<books, reviews, nextBookOid, nextReviewOid>>

\* what POST /api/reviews answers for the outcome of createReview
PostReviewResponse(ret) ==
  IF ret.kind = "throw"
    THEN Response(500, "An error occurred while creating the review.")
    ELSE Response(201, "Review added successfully")

\* createReview: new ObjectId(reviewData.bookId), then insertOne
StartCreateReview(via, bookId, reviewData) ==
  /\ creating.kind = "none"
  /\ IF ~ObjectIdIsValid(bookId)
       THEN /\ Record(WithBody(
                 Completed("createReview", via, bookId, NoQuantity, BSONError,
                           IF via = "route" THEN PostReviewResponse(BSONError)
                                            ELSE NoResponse,
                           0, FALSE),
                 WithBookId(reviewData, bookId)))
            /\ UNCHANGED <<reviews, nextReviewOid, creating>>
       ELSE /\ nextReviewOid <= MaxReviews
            /\ reviews' = reviews \cup
                 {[_id |-> GenReviewOid(nextReviewOid),
                   bookId |-> NewObjectId(bookId), f |-> reviewData]}
            /\ nextReviewOid' = nextReviewOid + 1
            /\ creating' = InFlightCall("review", GenReviewOid(nextReviewOid),
                                        via, bookId,
                                        WithBookId(reviewData, bookId))
            /\ UNCHANGED last
  /\ UNCHANGED <<books, nextBookOid>>

CreateReviewInsert ==
  \E bookId \in BookIds, reviewData \in ReviewBodies :
    StartCreateReview("direct", bookId, reviewData)

\* createReview: await collection.findOne({ _id: result.insertedId })
CreateReviewFetch ==
  /\ creating.kind = "review"
  /\ LET newReview == FindById(reviews, creating.oid)
         ret == IF newReview = {}
                  THEN RetThrow("Failed to create and retrieve the new review.")
                  ELSE RetDoc(ReviewMapMongoId(CHOOSE d \in newReview : TRUE))
     IN Record(WithBody(
          Completed("createReview", creating.via, ToHexString(creating.oid),
                    NoQuantity, ret,
                    IF creating.via = "route" THEN PostReviewResponse(ret)
                                              ELSE NoResponse,
                    2, FALSE),
          creating.body))
  /\ creating' = NotCreating
  /\ UNCHANGED <<books, reviews, nextBookOid, nextReviewOid>>

\* ------------------------------------------------------------- book routes
\* the required fields of a book body, in the order the handler tests them
RequiredBookFields == <<"title", "price">>
RequiredReviewFields == <<"bookId", "comment">>

\* the first required field that body[field] === undefined holds for
MissingFields(required, body) ==
  {i \in 1..Len(required) : required[i] \notin DOMAIN body}

FirstMissing(required, body) ==
  LET missing == MissingFields(required, body)
  IN required[CHOOSE i \in missing : \A j \in missing : i <= j]

MissingRequiredField ==
  [title |-> "Missing required field: title",
   price |-> "Missing required field: price",
   bookId |-> "Missing required field: bookId",
   comment |-> "Missing required field: comment"]

\* answered by a handler before any service function is called
RejectBooks(op, id, body, resp) ==
  BooksStep(op, "route", id, body, Outcome(books, RetNone, 0), resp)

RejectReviews(op, id, body, resp) ==
  ReviewsStep(op, "route", id, body, Outcome(reviews, RetNone, 0), resp)

\* GET /api/books
GetBooks ==
  BooksStep("listBooks", "route", Missing, NoBody, GetAllBooks(books),
            Response(200, "books"))

\* POST /api/books
PostBook(B) ==
  \E body \in B :
    IF MissingFields(RequiredBookFields, body) # {}
      THEN /\ creating.kind = "none"
           /\ RejectBooks("createBook", Missing, body,
                Response(400,
                  MissingRequiredField[FirstMissing(RequiredBookFields, body)]))
      ELSE StartCreateBook("route", body)

\* GET /api/books/:id
GetBookResponse(ret) ==
  IF ret = RetNull THEN Response(404, "Book not found")
                   ELSE Response(200, "book")

GetBook ==
  \E id \in BookRequestIds :
    LET out == GetBookById(books, id)
    IN BooksStep("getBook", "route", id, NoBody, out, GetBookResponse(out.ret))

\* PUT /api/books/:id
PutBookResponse(ret) ==
  IF ret = RetNull THEN Response(404, "Book not found or invalid ID")
                   ELSE Response(200, "Book updated successfully")

PutBook(U) ==
  \E id \in BookRequestIds, updates \in U :
    LET out == UpdateBook(books, id, updates)
    IN BooksStep("updateBook", "route", id, updates, out,
                 PutBookResponse(out.ret))

\* DELETE /api/books/:id
DeleteBookResponse(ret) ==
  IF ret.kind = "true" THEN Response(200, "Book deleted successfully")
                       ELSE Response(500, "Failed to delete book")

\* DELETE /api/books/:id: const book = await getBookById(id)
DeleteBookCheck ==
  \E id \in BookRequestIds :
    /\ creating.kind = "none"
    /\ LET book == GetBookById(books, id)
       IN IF book.ret = RetNull
            THEN BooksStep("deleteBook", "route", id, NoBody, book,
                           Response(404, "Book not found"))
            ELSE /\ creating' = InFlightCall("delete", NewObjectId(id),
                                             "route", id, NoBody)
                 /\ UNCHANGED <<books, reviews, nextBookOid, nextReviewOid,
                                last>>

\* DELETE /api/books/:id: const deleted = await deleteBook(id)
DeleteBookDelete ==
  /\ creating.kind = "delete"
  /\ LET out == DeleteBook(books, creating.id)
     IN /\ books' = out.cart
        /\ Record(Completed("deleteBook", "route", creating.id, NoQuantity,
                            out.ret, DeleteBookResponse(out.ret), out.ops + 1,
                            out.cart # books))
  /\ creating' = NotCreating
  /\ UNCHANGED <<reviews, nextBookOid, nextReviewOid>>

\* DELETE /api/books/:id for requests that overlap: every request p keeps its
\* own position between the two service calls of the handler.
\* const book = await getBookById(id)
DeleteBookLooksUp(p) ==
  \E id \in BookRequestIds :
    /\ proc[p].pc = "idle"
    /\ LET book == GetBookById(books, id)
       IN IF book.ret = RetNull
            THEN /\ BooksStep("deleteBook", "route", id, NoBody, book,
                              Response(404, "Book not found"))
                 /\ UNCHANGED proc
            ELSE /\ proc' = [proc EXCEPT ![p] =
                              [Idle EXCEPT !.pc = "deleteBook", !.via = "route",
                                           !.bookId = id, !.ops = book.ops]]
                 /\ UNCHANGED <<catalogVars, last>>

\* const deleted = await deleteBook(id), and the answer
DeleteBookDeletes(p) ==
  /\ proc[p].pc = "deleteBook"
  /\ LET out == DeleteBook(books, proc[p].bookId)
     IN /\ books' = out.cart
        /\ Record(Completed("deleteBook", "route", proc[p].bookId, NoQuantity,
                            out.ret, DeleteBookResponse(out.ret),
                            proc[p].ops + out.ops, out.cart # books))
  /\ proc' = [proc EXCEPT ![p] = Idle]
  /\ UNCHANGED <<reviews, nextBookOid, nextReviewOid, creating>>

\* ----------------------------------------------------------- review routes
\* GET /api/reviews and GET /api/reviews?bookId=
GetReviews ==
  \E bookId \in BookIds \cup {Missing} :
    IF bookId # Missing
      THEN LET out == GetReviewsByBookId(reviews, bookId)
           IN ReviewsStep("reviewsByBook", "route", bookId, NoBody, out,
                          IF out.ret = RetNull
                            THEN Response(400, "Invalid Book ID format")
                            ELSE Response(200, "reviews"))
      ELSE ReviewsStep("listReviews", "route", Missing, NoBody,
                       GetAllReviews(reviews), Response(200, "reviews"))

\* the fields of a review body besides bookId
RestOf(body) == [k \in DOMAIN body \ {"bookId"} |-> body[k]]

\* POST /api/reviews
PostReview(R) ==
  \E body \in R :
    IF MissingFields(RequiredReviewFields, body) # {}
      THEN /\ creating.kind = "none"
           /\ RejectReviews("createReview", Missing, body,
                Response(400,
                  MissingRequiredField[FirstMissing(RequiredReviewFields, body)]))
      ELSE StartCreateReview("route", body["bookId"], RestOf(body))

\* GET /api/reviews/:id
GetReviewResponse(ret) ==
  IF ret = RetNull THEN Response(404, "Review not found")
                   ELSE Response(200, "review")

GetReview ==
  \E id \in ReviewRequestIds :
    LET out == GetReviewById(reviews, id)
    IN ReviewsStep("getReview", "route", id, NoBody, out,
                   GetReviewResponse(out.ret))

\* PUT /api/reviews/:id
PutReviewResponse(ret) ==
  IF ret = RetNull THEN Response(404, "Review not found or invalid ID")
                   ELSE Response(200, "Review updated successfully")

PutReview(R) ==
  \E id \in ReviewRequestIds, updates \in R :
    LET bookId == IF "bookId" \in DOMAIN updates THEN updates["bookId"]
                                                 ELSE Missing
        out == UpdateReview(reviews, id, bookId, RestOf(updates))
    IN ReviewsStep("updateReview", "route", id, updates, out,
                   PutReviewResponse(out.ret))

\* DELETE /api/reviews/:id
DeleteReviewResponse(ret) ==
  IF ret.kind = "true"
    THEN Response(200, "Review deleted successfully")
    ELSE Response(404, "Review not found or failed to delete")

DeleteReviewRoute ==
  \E id \in ReviewRequestIds :
    LET out == DeleteReview(reviews, id)
    IN ReviewsStep("deleteReview", "route", id, NoBody, out,
                   DeleteReviewResponse(out.ret))

\* ------------------------------------------------------- storage failures
\* A round-trip that the store fails rejects the awaited promise: the service
\* function throws to the handler, whose catch block answers.  The failed
\* round-trip changes no collection.
StorageFailure == RetThrow("storage failure")

\* the catch block of a cart handler
CaughtCart(op, id, quantity, message) ==
  /\ Record(Completed(op, "route", id, quantity, StorageFailure,
                      Response(500, message), 1, FALSE))
  /\ UNCHANGED <<cart, nextOid, clock, proc>>

\* the catch block of a book or review handler
CaughtCatalog(op, id, body, ops, message) ==
  /\ Record(WithBody(Completed(op, "route", id, NoQuantity, StorageFailure,
                               Response(500, message), ops, FALSE), body))
  /\ UNCHANGED <<books, reviews, nextBookOid, nextReviewOid>>

GetCartFails ==
  CaughtCart("list", Missing, NoQuantity,
             "An error occurred while fetching cart items.")

\* any of the round-trips of addCartItem fails
PostCartFails(p) ==
  /\ proc[p].pc # "idle"
  /\ proc[p].via = "route"
  /\ Finish(p, StorageFailure, PostResponse(StorageFailure), FALSE)
  /\ UNCHANGED <<cart, nextOid, clock>>

PutCartFails(Q) ==
  \E cartItemId \in CartItemIds, quantity \in Q :
    /\ ~PutMissingFields(cartItemId, quantity)
    /\ ~PutBadQuantity(cartItemId, quantity)
    /\ ObjectIdIsValid(cartItemId)
    /\ CaughtCart("update", cartItemId, quantity,
                  "An error occurred while updating the cart item.")

DeleteCartFails ==
  \/ \E cartItemId \in CartItemIds :
       /\ ObjectIdIsValid(cartItemId)
       /\ CaughtCart("remove", cartItemId, NoQuantity,
                     "An error occurred while modifying the cart.")
  \/ CaughtCart("clear", Missing, NoQuantity,
                "An error occurred while modifying the cart.")

GetBooksFails ==
  /\ CaughtCatalog("listBooks", Missing, NoBody, 1,
                   "An error occurred while fetching books.")
  /\ UNCHANGED creating

\* the insertOne of createBook fails, or its findOne
PostBookFails(B) ==
  \/ \E body \in B :
       /\ creating.kind = "none"
       /\ MissingFields(RequiredBookFields, body) = {}
       /\ CaughtCatalog("createBook", Missing, body, 1,
                        PostBookResponse(StorageFailure).message)
       /\ UNCHANGED creating
  \/ /\ creating.kind = "book"
     /\ creating.via = "route"
     /\ CaughtCatalog("createBook", ToHexString(creating.oid), creating.body,
                      2, PostBookResponse(StorageFailure).message)
     /\ creating' = NotCreating

GetBookFails ==
  \E id \in BookRequestIds :
    /\ ObjectIdIsValid(id)
    /\ CaughtCatalog("getBook", id, NoBody, 1,
                     "An error occurred while fetching the book.")
    /\ UNCHANGED creating

PutBookFails(U) ==
  \E id \in BookRequestIds, updates \in U :
    /\ ObjectIdIsValid(id)
    /\ CaughtCatalog("updateBook", id, updates, 1,
                     "An error occurred while updating the book.")
    /\ UNCHANGED creating

\* the findOne of getBookById fails, or the deleteOne of deleteBook
DeleteBookFails ==
  \/ \E id \in BookRequestIds :
       /\ ObjectIdIsValid(id)
       /\ creating.kind = "none"
       /\ CaughtCatalog("deleteBook", id, NoBody, 1,
                        "An error occurred while deleting the book.")
       /\ UNCHANGED creating
  \/ /\ creating.kind = "delete"
     /\ CaughtCatalog("deleteBook", creating.id, NoBody, 2,
                      "An error occurred while deleting the book.")
     /\ creating' = NotCreating

GetReviewsFails ==
  \E bookId \in BookIds \cup {Missing} :
    /\ bookId # Missing => ObjectIdIsValid(bookId)
    /\ CaughtCatalog(IF bookId # Missing THEN "reviewsByBook"
                                         ELSE "listReviews",
                     bookId, NoBody, 1,
                     "An error occurred while fetching reviews.")
    /\ UNCHANGED creating

\* the insertOne of createReview fails, or its findOne
PostReviewFails(R) ==
  \/ \E body \in R :
       /\ creating.kind = "none"
       /\ MissingFields(RequiredReviewFields, body) = {}
       /\ ObjectIdIsValid(body["bookId"])
       /\ CaughtCatalog("createReview", body["bookId"], body, 1,
                        PostReviewResponse(StorageFailure).message)
       /\ UNCHANGED creating
  \/ /\ creating.kind = "review"
     /\ creating.via = "route"
     /\ CaughtCatalog("createReview", ToHexString(creating.oid), creating.body,
                      2, PostReviewResponse(StorageFailure).message)
     /\ creating' = NotCreating

GetReviewFails ==
  \E id \in ReviewRequestIds :
    /\ ObjectIdIsValid(id)
    /\ CaughtCatalog("getReview", id, NoBody, 1,
                     "An error occurred while fetching the review.")
    /\ UNCHANGED creating

PutReviewFails(R) ==
  \E id \in ReviewRequestIds, updates \in R :
    /\ ObjectIdIsValid(id)
    /\ CaughtCatalog("updateReview", id, updates, 1,
                     "An error occurred while updating the review.")
    /\ UNCHANGED creating

DeleteReviewFails ==
  \E id \in ReviewRequestIds :
    /\ ObjectIdIsValid(id)
    /\ CaughtCatalog("deleteReview", id, NoBody, 1,
                     "An error occurred while deleting the review.")
    /\ UNCHANGED creating

\* ------------------------------------------------------ connectToDatabase
\* the handles { client, db } a call returns; db is client.db()
Handles(client) == [client |-> client, db |-> client]

\* a call of connectToDatabase has returned handles, or thrown
Connected(c, handles, ret, ops) ==
  /\ conn' = [conn EXCEPT
                ![ "call" ][c] = [pc |-> "idle", returned |-> handles],
                !.clients = IF ret.kind = "throw" THEN @ ELSE handles.client,
                !.cachedClient = IF ops = 0 \/ ret.kind = "throw"
                                   THEN @ ELSE handles.client,
                !.cachedDb = IF ops = 0 \/ ret.kind = "throw"
                               THEN @ ELSE handles.db]
  /\ Record(Completed("connect", "direct", Missing, NoQuantity, ret,
                      NoResponse, ops, ops = 1 /\ ret.kind # "throw"))

\* connectToDatabase up to its await: the cached handles when both are set,
\* else MongoClient.connect is called and awaited
ConnectToDatabase(c) ==
  /\ conn.call[c].pc = "idle"
  /\ IF conn.cachedClient # 0 /\ conn.cachedDb # 0
       THEN Connected(c, [client |-> conn.cachedClient, db |-> conn.cachedDb],
                      RetCount(conn.cachedClient), 0)
       ELSE /\ conn.clients
                 + Cardinality({d \in ConnCallers :
                                  conn.call[d].pc = "connecting"}) < MaxClients
            /\ conn' = [conn EXCEPT ![ "call" ][c].pc = "connecting"]
            /\ UNCHANGED last

\* MongoClient.connect resolves: the new client and its db are cached and
\* returned
ConnectResolves(c) ==
  /\ conn.call[c].pc = "connecting"
  /\ Connected(c, Handles(conn.clients + 1), RetCount(conn.clients + 1), 1)

\* MongoClient.connect rejects: the call throws and nothing is cached
ConnectRejects(c) ==
  /\ conn.call[c].pc = "connecting"
  /\ Connected(c, NoHandles, RetThrow("connect failed"), 1)

\* ------------------------------------------------------------ client views
\* mutant of ResOk: the handler does not test the response
ResOkAlways(resp) == TRUE

\* res.ok: the status is in the range 200-299
ResOk(resp) == resp.status >= 200 /\ resp.status <= 299

\* a page handler calls fetch and awaits the response
ViewSends(handler) ==
  /\ view.pc = "idle"
  /\ view' = [view EXCEPT !.pc = "awaiting", !.handler = handler]

\* the identifiers of the lines a cart page may hold, current or stale
ListedCartItemIds == {id \in CartItemIds : ObjectIdIsValid(id)}

\* home page, handleAddToCart(bookId): POST { bookId, quantity: 1 }
HomeAddToCart ==
  \E p \in Caller, bookId \in BookIds :
    /\ ViewSends("home")
    /\ PostCartRequest(p, bookId, OneCopy)

\* book detail page, handleAddToCart: POST { bookId: book.id, quantity }
DetailAddToCart ==
  \E p \in Caller, bookId \in BookIds, quantity \in 1..MaxInput :
    /\ ViewSends("detail")
    /\ PostCartRequest(p, bookId, JsonNumber(Num(quantity)))

\* cart page, updateQuantity(cartItemId, newQuantity): returns below 1
CartUpdateQuantity ==
  \E cartItemId \in ListedCartItemIds, newQuantity \in Quantities :
    /\ ~(newQuantity < Num(1))
    /\ ViewSends("updateQuantity")
    /\ PutCartRequest(cartItemId, JsonNumber(newQuantity))

\* cart page, removeItem(cartItemId)
CartRemoveItem ==
  \E cartItemId \in ListedCartItemIds :
    /\ ViewSends("removeItem")
    /\ DeleteCartRequest(cartItemId, "false")

\* cart page, clearCart
CartClearCart ==
  /\ ViewSends("clearCart")
  /\ DeleteCartRequest(Missing, "true")

\* the awaited fetch resolves: on !res.ok the handler ends, else it
\* dispatches cartUpdated; the handlers of the cart page go on to fetchCart
ViewResumes ==
  /\ view.pc = "awaiting"
  /\ AllIdle
  /\ view' = IF ~ResOk(last.resp)
               THEN [view EXCEPT !.pc = "idle"]
               ELSE [view EXCEPT
                       !.events = 1 - @,
                       !.pc = IF view.handler \in {"home", "detail"}
                                THEN "idle" ELSE "fetchCart"]
  /\ UNCHANGED <<cart, nextOid, clock, proc, last>>

\* cart page, fetchCart: GET /api/cart
ViewFetchesCart ==
  /\ view.pc = "fetchCart"
  /\ Apply("list", "route", Missing, NoQuantity, Outcome(cart, RetList(cart), 1),
           Response(200, "cart items"))
  /\ view' = [view EXCEPT !.pc = "idle"]

\* ------------------------------------------------------------------ Navbar
RECURSIVE SumQuantities(_)
\* data.reduce((sum, it) => sum + (Number(it.quantity) || 0), 0)
SumQuantities(data) ==
  IF data = {}
    THEN 0
    ELSE LET it == CHOOSE x \in data : TRUE
         IN it.quantity + SumQuantities(data \ {it})

FreeFetches(n) == {i \in FetchIds : n.fetch[i].pc = "free"}

\* fetchCartCount up to its await: setLoading(true), fetch('/api/cart')
FetchCartCount(n) ==
  LET i == CHOOSE i \in FreeFetches(n) : \A j \in FreeFetches(n) : i <= j
  IN [n EXCEPT !.loading = TRUE, !.fetch[i] = [NoFetch EXCEPT !.pc = "sent"]]

\* useEffect on mount: fetchCartCount(), then the listener is added
NavbarMounts ==
  /\ ~navbar.mounted
  /\ navbar' = FetchCartCount([navbar EXCEPT !.mounted = TRUE])

\* window.dispatchEvent runs the listeners: handler = () => fetchCartCount()
CartUpdatedHeard ==
  IF view'.events # view.events /\ navbar.mounted
    THEN /\ FreeFetches(navbar) # {}
         /\ navbar' = FetchCartCount(navbar)
    ELSE UNCHANGED navbar

\* GET /api/cart answers a fetch of the Navbar: getCart, status 200
NavbarGetCart(i) ==
  /\ navbar.fetch[i].pc = "sent"
  /\ navbar' = [navbar EXCEPT
                  !.fetch[i] = [pc |-> "answered", status |-> 200,
                                data |-> GetCartResult(cart)]]

\* the awaited fetch resolves, in any order: setCartItemCount and, in the
\* finally block, setLoading(false)
NavbarReceives(i) ==
  /\ navbar.fetch[i].pc = "answered"
  /\ navbar' = [navbar EXCEPT
                  !.cartItemCount = IF ~ResOk(navbar.fetch[i])
                                      THEN 0
                                      ELSE SumQuantities(navbar.fetch[i].data),
                  !.loading = FALSE,
                  !.fetch[i] = NoFetch]

\* ------------------------------------------------------------ specifications
Continue(p) == AddFind(p) \/ AddUpdate(p) \/ AddInsert(p) \/ AddFetch(p)

DirectCall(P) ==
  \/ \E p \in P : CallAddCartItem(p)
  \/ CallUpdateCartItemQuantity
  \/ CallRemoveCartItem
  \/ CallClearCart

RouteCall(P, Q) ==
  \/ \E p \in P : PostCart(p, Q)
  \/ PutCart(Q)
  \/ DeleteCart

\* the cart service functions called directly, their round-trips interleaved
Next ==
  /\ \/ DirectCall(Procs)
     \/ CallGetCart
     \/ \E p \in Procs : Continue(p)
  /\ UNCHANGED <<catalogVars, view, conn, navbar>>

Spec == Init /\ [][Next]_vars

\* one cart call or request at a time: it starts only when none is in flight
SeqNext ==
  /\ \/ AllIdle /\ DirectCall(Caller)
     \/ AllIdle /\ RouteCall(Caller, JsonWhole)
     \/ AllIdle /\ CallGetCart
     \/ \E p \in Caller : Continue(p)
  /\ UNCHANGED <<catalogVars, view, conn, navbar>>

SeqSpec == Init /\ [][SeqNext]_vars

\* requests to the cart routes only, one at a time
RouteNext ==
  /\ \/ AllIdle /\ (RouteCall(Caller, JsonQuantities) \/ CallGetCart)
     \/ \E p \in Caller : Continue(p)
  /\ UNCHANGED <<catalogVars, view, conn, navbar>>

RouteSpec == Init /\ [][RouteNext]_vars

\* the book service functions, their round-trips interleaved
BookCall ==
  \/ CreateBookInsert
  \/ CreateBookFetch
  \/ CallGetBookById
  \/ CallUpdateBook
  \/ CallDeleteBook

\* the review service functions, their round-trips interleaved
ReviewCall ==
  \/ CreateReviewInsert
  \/ CreateReviewFetch
  \/ CallGetReviewById
  \/ CallUpdateReview
  \/ CallDeleteReview

\* No service function reads or writes both collections, so the runs of the
\* book calls and the runs of the review calls are explored apart.
CatalogNext ==
  /\ \/ nextReviewOid = 1 /\ BookCall
     \/ nextBookOid = 1 /\ ReviewCall
  /\ UNCHANGED <<cartVars, view, conn, navbar>>

CatalogSpec == Init /\ [][CatalogNext]_vars

\* bodies of the declared types: a book without id, some fields of a book
PostBookBodies == Partial(BookFields)
PutBookBodies == Partial(BookFields)

\* bodies as the handlers parse them, any JSON object: one carries an id
IdField == [k \in {"id"} |-> <<"x">>]
AnyPostBookBodies == {[k \in BookFields |-> <<"x">>]}
AnyPutBookBodies == {IdField, [k \in {"title"} |-> <<"y">>]}

BookRoute(B, U) ==
  \/ GetBooks
  \/ PostBook(B)
  \/ GetBook
  \/ PutBook(U)
  \/ DeleteBookCheck

\* requests to the book routes, one at a time
BookNext ==
  /\ \/ creating.kind = "none" /\ BookRoute(PostBookBodies, PutBookBodies)
     \/ creating.kind = "none" /\ CallGetAllBooks
     \/ CreateBookFetch
     \/ DeleteBookDelete
  /\ UNCHANGED <<cartVars, view, conn, navbar>>

BookSpec == Init /\ [][BookNext]_vars

\* requests to the book routes with bodies of any fields, one at a time
AnyBookNext ==
  /\ \/ creating.kind = "none" /\ BookRoute(AnyPostBookBodies, AnyPutBookBodies)
     \/ CreateBookFetch
     \/ DeleteBookDelete
  /\ UNCHANGED <<cartVars, view, conn, navbar>>

AnyBookSpec == Init /\ [][AnyBookNext]_vars

\* review bodies: some of the fields, with or without a bookId
ReviewRouteBodies ==
  {WithBookId(rest, bookId) :
     rest \in Partial(ReviewFields), bookId \in BookIds \cup {Missing}}

ReviewRoute(R) ==
  \/ GetReviews
  \/ PostReview(R)
  \/ GetReview
  \/ PutReview(R)
  \/ DeleteReviewRoute

\* requests to the review routes, one at a time
ReviewNext ==
  /\ \/ creating.kind = "none" /\ ReviewRoute(ReviewRouteBodies)
     \/ creating.kind = "none" /\ CallGetAllReviews
     \/ creating.kind = "none" /\ CallGetReviewsByBookId
     \/ CreateReviewFetch
  /\ UNCHANGED <<cartVars, view, conn, navbar>>

ReviewSpec == Init /\ [][ReviewNext]_vars

\* the shop: books are created and deleted, reviewed, and put in the cart
NewBookBodies == {[k \in BookFields |-> <<"x">>]}
NewReviewBodies ==
  {WithBookId([k \in ReviewFields |-> <<"x">>], bookId) : bookId \in BookIds}
RetargetBodies == {WithBookId(NoBody, bookId) : bookId \in {BookB, Malformed}}

\* no call or request is in flight
Quiet == AllIdle /\ creating.kind = "none"

ShopCatalogRequest ==
  \/ PostBook(NewBookBodies)
  \/ DeleteBookCheck
  \/ CallDeleteBook
  \/ PostReview(NewReviewBodies)
  \/ PutReview(RetargetBodies)

ShopNext ==
  \/ /\ \/ Quiet /\ ShopCatalogRequest
        \/ CreateBookFetch
        \/ DeleteBookDelete
        \/ CreateReviewFetch
     /\ UNCHANGED <<cartVars, view, conn, navbar>>
  \/ /\ \/ Quiet /\ \E p \in Caller, bookId \in {BookA, Malformed} :
                       PostCartRequest(p, bookId, OneCopy)
        \/ \E p \in Caller : Continue(p)
     /\ UNCHANGED <<catalogVars, view, conn, navbar>>

ShopSpec == Init /\ [][ShopNext]_vars

\* requests to every route, any of whose round-trips the store may fail
CartFails(Q) ==
  \/ AllIdle /\ GetCartFails
  \/ \E p \in Caller : PostCartFails(p)
  \/ AllIdle /\ PutCartFails(Q)
  \/ AllIdle /\ DeleteCartFails

BookFails(B, U) ==
  \/ creating.kind = "none" /\ GetBooksFails
  \/ PostBookFails(B)
  \/ creating.kind = "none" /\ GetBookFails
  \/ creating.kind = "none" /\ PutBookFails(U)
  \/ DeleteBookFails

ReviewFails(R) ==
  \/ creating.kind = "none" /\ GetReviewsFails
  \/ PostReviewFails(R)
  \/ creating.kind = "none" /\ GetReviewFails
  \/ creating.kind = "none" /\ PutReviewFails(R)
  \/ creating.kind = "none" /\ DeleteReviewFails

CartUntouched == cart = {} /\ nextOid = 1 /\ AllIdle
BooksUntouched == books = {} /\ nextBookOid = 1
ReviewsUntouched == reviews = {} /\ nextReviewOid = 1

\* No handler reads or writes two collections, so the requests to the routes
\* of each collection are explored while the other collections are untouched.
FailNext ==
  \/ /\ BooksUntouched /\ ReviewsUntouched /\ creating.kind = "none"
     /\ \/ AllIdle /\ (RouteCall(Caller, {OneCopy}) \/ CallGetCart)
        \/ \E p \in Caller : Continue(p)
        \/ CartFails({OneCopy})
     /\ UNCHANGED <<catalogVars, view, conn, navbar>>
  \/ /\ CartUntouched /\ ReviewsUntouched
     /\ \/ creating.kind = "none" /\ BookRoute(NewBookBodies, AnyPutBookBodies)
        \/ CreateBookFetch
        \/ DeleteBookDelete
        \/ BookFails(NewBookBodies, AnyPutBookBodies)
     /\ UNCHANGED <<cartVars, view, conn, navbar>>
  \/ /\ CartUntouched /\ BooksUntouched
     /\ \/ creating.kind = "none" /\ ReviewRoute(NewReviewBodies)
        \/ CreateReviewFetch
        \/ ReviewFails(NewReviewBodies)
     /\ UNCHANGED <<cartVars, view, conn, navbar>>

FailSpec == Init /\ [][FailNext]_vars

\* requests to the cart routes that overlap: the round-trips of two POST
\* requests interleave with each other and with PUT and DELETE requests.
\* Both requests may be for the first book; the second book gives the cart
\* another line, and the requests for it come from one caller.
RaceBooks == {BookA, BookB}
RaceQuantities == {JsonNumber(Num(0)), OneCopy}

RaceNext ==
  /\ \/ \E p \in Procs, bookId \in RaceBooks :
          /\ bookId = BookB => p \in Caller
          /\ PostCartRequest(p, bookId, OneCopy)
     \/ \E p \in Procs : Continue(p)
     \/ \E cartItemId \in ListedCartItemIds, quantity \in RaceQuantities :
          PutCartRequest(cartItemId, quantity)
     \/ \E cartItemId \in ListedCartItemIds :
          DeleteCartRequest(cartItemId, "false")
     \/ DeleteCartRequest(Missing, "true")
  /\ UNCHANGED <<catalogVars, view, conn, navbar>>

RaceSpec == Init /\ [][RaceNext]_vars

\* the handlers of the pages that change the cart, one at a time, and the
\* cart routes that answer them
ViewNext ==
  /\ \/ HomeAddToCart
     \/ DetailAddToCart
     \/ CartUpdateQuantity
     \/ CartRemoveItem
     \/ CartClearCart
     \/ (\E p \in Caller : Continue(p)) /\ UNCHANGED view
     \/ ViewResumes
     \/ ViewFetchesCart
  /\ UNCHANGED <<catalogVars, conn, navbar>>

ViewSpec == Init /\ [][ViewNext]_vars

\* the page handlers that change the cart, one at a time, and the Navbar
\* that fetches the cart on mount and at every cartUpdated
BadgeNext ==
  /\ \/ /\ \/ HomeAddToCart
           \/ DetailAddToCart
           \/ CartUpdateQuantity
           \/ CartRemoveItem
           \/ CartClearCart
           \/ ViewFetchesCart
           \/ (\E p \in Caller : Continue(p)) /\ UNCHANGED view
        /\ UNCHANGED navbar
     \/ ViewResumes /\ CartUpdatedHeard
     \/ /\ \/ NavbarMounts
           \/ \E i \in FetchIds : NavbarGetCart(i)
           \/ \E i \in FetchIds : NavbarReceives(i)
        /\ UNCHANGED <<cartVars, last, view>>
  /\ UNCHANGED <<catalogVars, conn>>

BadgeSpec == Init /\ [][BadgeNext]_vars

\* books are created one at a time; DELETE requests for them overlap
DeleteNext ==
  \/ /\ \/ creating.kind = "none" /\ PostBook(NewBookBodies)
        \/ CreateBookFetch
     /\ UNCHANGED <<cartVars, view, conn, navbar>>
  \/ /\ \E p \in Procs : DeleteBookLooksUp(p) \/ DeleteBookDeletes(p)
     /\ UNCHANGED <<cart, nextOid, clock, view, conn, navbar>>

DeleteSpec == Init /\ [][DeleteNext]_vars

\* the service functions' calls of connectToDatabase, overlapping
ConnNext ==
  /\ \E c \in ConnCallers :
       \/ ConnectToDatabase(c)
       \/ ConnectResolves(c)
       \/ ConnectRejects(c)
  /\ UNCHANGED <<cartVars, catalogVars, view, navbar>>

ConnSpec == Init /\ [][ConnNext]_vars

\* ================================================================== claims
\* a step that completes a call or request (recorded in last')
Completes == last'.seq # last.seq

\* the call recorded in c reached the service function with a numeric quantity
Invoked(c) == c.ret.kind # "none" /\ c.quantity.t = "number"

LinesOfBook(c, bookId) == FindByBookId(c, NewObjectId(bookId))
LineWithId(c, id) == {d \in c : ToHexString(d._id) = id}

\* C1: in every reachable state at most one cart line exists per book
\* identifier, also when the round-trips of calls overlap.
CartUniqueness ==
  \A d1 \in cart, d2 \in cart : d1.bookId = d2.bookId => d1 = d2

\* C2: when addCartItem(b, q1) found no line for b and inserted one, and the
\* next call, started after it completed, is addCartItem(b, q2), with q1 and
\* q2 positive integers, then afterwards exactly one line for b exists, its
\* quantity is q1 + q2, and the second call returns that line.
SequentialAdditiveMerge ==
  [][\A p \in Procs :
       ( /\ Completes
         /\ proc[p].pc # "idle" /\ proc'[p].pc = "idle"
         /\ last.op = "add" /\ last.ops = 3 /\ last.ret.kind = "line"
         /\ IsPositiveInteger(last.quantity.n)
         /\ IsPositiveInteger(proc[p].quantity)
         /\ NewObjectId(last.id) = NewObjectId(proc[p].bookId) )
       => LET lines == LinesOfBook(cart', proc[p].bookId)
          IN /\ Cardinality(lines) = 1
             /\ \A d \in lines :
                  /\ d.quantity = last.quantity.n + proc[p].quantity
                  /\ last'.ret = RetLine(d)]_vars

\* a merge of a positive quantity into the single line of a book has completed
SequentialAdditiveMergeWitness ==
  /\ AllIdle
  /\ last.op = "add" /\ last.ops = 2 /\ last.ret.kind = "line"
  /\ IsPositiveInteger(last.quantity.n)
  /\ Cardinality(LinesOfBook(cart, last.id)) = 1
  /\ \E l \in last.ret.lines :
       IsPositiveInteger(l.quantity - last.quantity.n)

\* C3: updateCartItemQuantity(id, q) with a well-formed id and q <= 0 deletes
\* the line with that id and no other, and returns null; a deleted line's id
\* never comes back, so every later getCart excludes it; PUT with quantity 0
\* answers that the item was removed.
NonPositiveQuantityRemoves ==
  [][ /\ ( /\ Completes /\ last'.op = "update" /\ Invoked(last')
           /\ ObjectIdIsValid(last'.id) /\ last'.quantity.n <= 0 )
         => /\ cart' = cart \ LineWithId(cart, last'.id)
            /\ last'.ret = RetNull
            /\ (last'.via = "route" /\ last'.quantity.n = 0)
                 => /\ last'.resp.status = 200
                    /\ last'.resp.message =
                         "Cart item removed successfully (quantity set to 0)"
      /\ \A n \in 1..(nextOid - 1) :
           FindById(cart, GenOid(n)) = {} => FindById(cart', GenOid(n)) = {}
      /\ (Completes /\ last'.op = "list")
           => last'.ret.lines = {CartMapMongoId(d) : d \in cart'} ]_vars

\* a set-quantity with a quantity <= 0 has just deleted the line it named
NonPositiveQuantityRemovesWitness ==
  /\ last.op = "update" /\ Invoked(last) /\ ObjectIdIsValid(last.id)
  /\ last.quantity.n <= 0 /\ last.changed
  /\ LineWithId(cart, last.id) = {}
  /\ cart # {}

\* C4: updateCartItemQuantity(id, q) with q > 0 sets the quantity of the line
\* with that id to exactly q, changes nothing else and returns the updated
\* line; when no line has that id it returns null and the cart is unchanged.
PositiveQuantityOverwrites ==
  [][ ( /\ Completes /\ last'.op = "update" /\ Invoked(last')
        /\ ObjectIdIsValid(last'.id) /\ last'.quantity.n > 0 )
      => LET hit == LineWithId(cart, last'.id)
         IN IF hit = {}
              THEN cart' = cart /\ last'.ret = RetNull
              ELSE \E d \in hit :
                     LET e == [d EXCEPT !.quantity = last'.quantity.n]
                     IN /\ cart' = (cart \ {d}) \cup {e}
                        /\ last'.ret = RetLine(e) ]_vars

\* a set-quantity with q > 0 has just lowered the quantity of a merged line
PositiveQuantityOverwritesWitness ==
  /\ last.op = "update" /\ Invoked(last) /\ last.quantity.n > 0
  /\ last.changed /\ last.ret.kind = "line"
  /\ \E d \in LineWithId(cart, last.id) : d.quantity = last.quantity.n

\* C5: removeCartItem(id) returns true exactly when a line had that id, and
\* then deletes that line and no other; for a malformed id or an id without
\* a line it returns false, issues no delete that matches, and the cart is
\* unchanged; DELETE answers 200 for true and 404 for false.
RemoveReportsDeletion ==
  [][ ( /\ Completes /\ last'.op = "remove" /\ last'.ret.kind # "none" )
      => LET hit == IF ObjectIdIsValid(last'.id)
                      THEN LineWithId(cart, last'.id) ELSE {}
         IN /\ last'.ret = RetBool(hit # {})
            /\ cart' = cart \ hit
            /\ Cardinality(hit) <= 1
            /\ ~ObjectIdIsValid(last'.id) => last'.ops = 0
            /\ last'.via = "route"
                 => last'.resp.status = IF hit # {} THEN 200 ELSE 404 ]_vars

\* a remove of a malformed id has reported failure on a cart that holds lines
RemoveReportsDeletionWitness ==
  /\ last.op = "remove" /\ last.id = Malformed /\ last.ret = RetBool(FALSE)
  /\ cart # {}

\* C6: clearCart on a cart of n lines returns n and leaves the cart empty, so
\* a getCart that follows at once returns no line; on an empty cart it
\* returns 0.
ClearRemovesAll ==
  [][ /\ (Completes /\ last'.op = "clear" /\ last'.ret.kind # "none")
         => /\ last'.ret = RetCount(Cardinality(cart))
            /\ cart' = {}
      /\ (Completes /\ last.op = "clear" /\ last.ret.kind # "none"
            /\ last'.op = "list")
         => last'.ret.lines = {} ]_vars

\* a clear has just returned the count of a cart that held two lines
ClearRemovesAllWitness ==
  last.op = "clear" /\ last.ret = RetCount(2) /\ cart = {}

\* C7: addCartItem with a malformed book id throws Invalid Book ID before any
\* round-trip to the store, and neither inserts nor changes a line.
MalformedBookIdRejected ==
  [][ ( /\ Completes /\ last'.op = "add" /\ Invoked(last')
        /\ ~ObjectIdIsValid(last'.id) )
      => /\ last'.ret = RetThrow("Invalid Book ID")
         /\ last'.ops = 0
         /\ cart' = cart /\ nextOid' = nextOid ]_vars

\* an add with a malformed book id has been refused on a cart that holds lines
MalformedBookIdRejectedWitness ==
  /\ last.op = "add" /\ last.id = Malformed /\ last.ret.kind = "throw"
  /\ last.ops = 0 /\ cart # {}

\* C8: an add whose quantity is zero or negative is refused, by addCartItem
\* and by POST alike: it issues no round-trip and returns no line.
NonPositiveAddRejected ==
  ( /\ last.op = "add" /\ last.quantity.t = "number"
    /\ last.quantity.n <= 0 )
  => /\ last.ret.kind \in {"throw", "none"}
     /\ last.ops = 0

\* C9: every stored cart line has a quantity that is a positive integer, for
\* every sequence of requests the cart routes accept.
QuantityPositiveInteger ==
  \A d \in cart : IsPositiveInteger(d.quantity)

\* C10: getBookById, updateBook, deleteBook, getReviewById, updateReview and
\* deleteReview called with a malformed id return not-found (null, null,
\* false) without a round-trip to the store and without throwing, and leave
\* both collections unchanged.
MalformedIdNotFound ==
  [][ ( /\ Completes
        /\ last'.op \in {"getBook", "updateBook", "deleteBook",
                         "getReview", "updateReview", "deleteReview"}
        /\ ~ObjectIdIsValid(last'.id) )
      => /\ last'.ret = IF last'.op \in {"deleteBook", "deleteReview"}
                          THEN RetBool(FALSE) ELSE RetNull
         /\ last'.ops = 0
         /\ books' = books /\ reviews' = reviews ]_vars

\* an update with a malformed id has returned null on a catalog that holds a book
MalformedIdNotFoundWitness ==
  /\ last.op = "updateBook" /\ last.id = Malformed /\ last.ret = RetNull
  /\ last.ops = 0 /\ books # {}

UpdateChangesGivenFields ==
  [][ ( /\ Completes /\ last'.op = "updateBook"
        /\ ObjectIdIsValid(last'.id) )
      => LET oid == NewObjectId(last'.id)
             hit == {d \in books : d._id = oid}
             given == last'.body
         IN /\ {d \in books' : d._id # oid} = {d \in books : d._id # oid}
            /\ Cardinality(books') = Cardinality(books)
            /\ hit = {} => (books' = books /\ last'.ret = RetNull)
            /\ \A d \in hit :
                 \E e \in books' :
                   /\ e._id = oid
                   /\ DOMAIN e.f = DOMAIN d.f \cup DOMAIN given
                   /\ \A k \in DOMAIN e.f :
                        e.f[k] = IF k \in DOMAIN given THEN given[k]
                                                      ELSE d.f[k] ]_vars

\* an update of one field has changed a book while another book is stored
UpdateChangesGivenFieldsWitness ==
  /\ last.op = "updateBook" /\ last.changed
  /\ DOMAIN last.body = {"price"}
  /\ Cardinality(books) = 2
  /\ \E d \in books :
       /\ ToHexString(d._id) = last.id
       /\ d.f["price"] = last.body["price"]
       /\ d.f["title"] # d.f["price"]

\* C13: the identifier under which a book is reported never changes: every
\* stored book is listed under the identifier it was created with, and
\* getBookById and updateBook report a book under the identifier they were
\* called with.
IdentifierImmutable ==
  /\ \A d \in books : BookMapMongoId(d)["id"] = ToHexString(d._id)
  /\ (last.op \in {"getBook", "updateBook"} /\ last.ret.kind = "doc")
       => \A m \in last.ret.lines : m["id"] = ToHexString(NewObjectId(last.id))

\* C14: updateReview whose updates carry a malformed bookId throws and
\* changes nothing: none of the other supplied fields is written.
MalformedBookIdUpdateRejected ==
  ( /\ last.op = "updateReview" /\ ObjectIdIsValid(last.id)
    /\ "bookId" \in DOMAIN last.body
    /\ ~ObjectIdIsValid(last.body["bookId"]) )
  => /\ last.ret.kind = "throw"
     /\ ~last.changed

\* C15: getReviewsByBookId returns null exactly for a malformed bookId; for a
\* well-formed one it returns the stored reviews whose bookId is that book,
\* translated, and no other: an empty list when there is none.  It changes
\* nothing.  GET /api/reviews?bookId= answers 400 for null, 200 for a list.
ListByBookExact ==
  [][ ( /\ Completes /\ last'.op = "reviewsByBook" )
      => LET ofBook == {d \in reviews :
                           ToHexString(d.bookId) =
                             ToHexString(NewObjectId(last'.id))}
         IN /\ (last'.ret = RetNull) <=> ~ObjectIdIsValid(last'.id)
            /\ ObjectIdIsValid(last'.id)
                 => /\ last'.ret.kind = "list"
                    /\ last'.ret.lines = {ReviewMapMongoId(d) : d \in ofBook}
            /\ reviews' = reviews
            /\ last'.via = "route"
                 => last'.resp.status =
                      IF ObjectIdIsValid(last'.id) THEN 200 ELSE 400 ]_vars

\* the reviews of a book without reviews were listed while another book has one
ListByBookExactWitness ==
  /\ last.op = "reviewsByBook" /\ ObjectIdIsValid(last.id)
  /\ last.ret.kind = "list" /\ last.ret.lines = {}
  /\ reviews # {}

\* C16: every step that creates a review, or gives a stored review another
\* bookId, stores a bookId that is the _id of a book in the catalog.
ReviewReferenceIntegrity ==
  [][ \A r \in reviews' :
        (\A r0 \in reviews : r0._id # r._id \/ r0.bookId # r.bookId)
        => \E b \in books : b._id = r.bookId ]_vars

\* C17: deleteBook, called directly or by DELETE /api/books/:id, removes at
\* most one book, the one with the given id, and leaves the reviews and the
\* cart as they are; the handler's lookup before it changes nothing.
DeleteBookNoCascade ==
  [][ /\ (Completes /\ last'.op = "deleteBook")
         => /\ reviews' = reviews
            /\ cart' = cart
            /\ books' \subseteq books
            /\ Cardinality(books \ books') <= 1
            /\ \A d \in books \ books' : ToHexString(d._id) = last'.id
      /\ creating'.kind = "delete"
         => (books' = books /\ reviews' = reviews /\ cart' = cart) ]_vars

\* a book was deleted; a review of it, a cart line for it and another book stay
DeleteBookNoCascadeWitness ==
  /\ last.op = "deleteBook" /\ last.ret = RetBool(TRUE)
  /\ FindById(books, NewObjectId(last.id)) = {}
  /\ books # {}
  /\ \E r \in reviews : r.bookId = NewObjectId(last.id)
  /\ \E l \in cart : l.bookId = NewObjectId(last.id)

\* C18: a request to POST /api/cart or POST /api/reviews whose bookId is
\* malformed is answered 400 and writes nothing.
MalformedIdentifierIs400 ==
  ( /\ last.via = "route" /\ last.op \in {"add", "createReview"}
    /\ last.ret.kind # "none"
    /\ ~ObjectIdIsValid(last.id) )
  => /\ last.resp.status = 400
     /\ ~last.changed

\* C19: when a round-trip of a route handler's service call fails, the
\* handler answers 500 in that step and is over: the failed round-trip is
\* counted once, none follows it for that request, and no collection changes.
FailureIsTerminal ==
  [][ ( /\ Completes /\ last'.ret = StorageFailure )
      => /\ last'.via = "route"
         /\ last'.resp.status = 500
         /\ cart' = cart /\ books' = books /\ reviews' = reviews
         /\ AllIdle' /\ creating'.kind = "none"
         /\ \A p \in InFlight : last'.ops = proc[p].ops + 1
         /\ creating.kind # "none" => last'.ops = 2
         /\ (AllIdle /\ creating.kind = "none") => last'.ops = 1 ]_vars

\* the findOne that follows the insertOne of an add failed: 500, line stored
FailureIsTerminalWitness ==
  /\ last.op = "add" /\ last.ret = StorageFailure /\ last.ops = 3
  /\ last.resp.status = 500
  /\ AllIdle /\ cart # {}

\* C20: when a page handler that changed the cart gets its response, it
\* dispatches cartUpdated once if the status is in 200-299 and not at all
\* otherwise; no other step dispatches the event.
CartUpdatedAfterSuccess ==
  [][ IF view.pc = "awaiting" /\ view'.pc # "awaiting"
        THEN (view'.events # view.events)
               <=> (last.resp.status >= 200 /\ last.resp.status <= 299)
        ELSE view'.events = view.events ]_vars

\* after one dispatch, a remove of a line that is gone was answered 404 and
\* dispatched nothing
CartUpdatedAfterSuccessWitness ==
  /\ view.pc = "idle" /\ view.handler = "removeItem"
  /\ last.op = "remove" /\ last.resp.status = 404
  /\ view.events = 1

\* C21: a call of addCartItem that read no line for its book inserts a new
\* line in a later round-trip, whatever has been stored for the book in
\* between: the cart then holds one more line for the book than before, so
\* two overlapping calls for a book without a line both insert.
DuplicateLineRace ==
  [][ \A p \in Procs :
        (proc[p].pc = "insert" /\ proc'[p].pc = "fetch")
        => LET bookOid == NewObjectId(proc[p].bookId)
           IN /\ proc[p].existingItem = {}
              /\ \E d \in cart' \ cart :
                   /\ cart' = cart \cup {d}
                   /\ d.bookId = bookOid
                   /\ d._id = proc'[p].insertedId
              /\ Cardinality(FindByBookId(cart', bookOid)) =
                   Cardinality(FindByBookId(cart, bookOid)) + 1 ]_vars

\* two overlapping adds for one book have both inserted and both returned:
\* the cart holds two lines for the book
DuplicateLineRaceWitness ==
  /\ AllIdle
  /\ last.op = "add" /\ last.ops = 3 /\ last.ret.kind = "line"
  /\ Cardinality(LinesOfBook(cart, last.id)) = 2
  /\ \A l \in last.ret.lines : l.bookId = ToHexString(NewObjectId(last.id))

\* C22: the write of a merge stores the quantity the call read plus the
\* quantity it adds, whatever is stored when the write lands: an add or a
\* set-quantity that wrote the line between the read and the write is
\* overwritten, so of two overlapping merges of q1 and q2 into a line of
\* quantity q the line keeps q + q1 or q + q2.
LostUpdateRace ==
  [][ \A p \in Procs :
        (proc[p].pc = "update" /\ proc'[p].pc = "idle")
        => \A e \in proc[p].existingItem :
             /\ \A d \in FindById(cart', e._id) :
                  d.quantity = e.quantity + proc[p].quantity
             /\ FindById(cart, e._id) # {}
                  => /\ FindById(cart', e._id) # {}
                     /\ last'.ret.kind = "line"
                     /\ \A l \in last'.ret.lines :
                          l.quantity = e.quantity + proc[p].quantity
             /\ {d \in cart' : d._id # e._id} = {d \in cart : d._id # e._id}
      ]_vars

\* a merge of a positive quantity has returned the line and left the stored
\* quantity as it was: another merge had written the same sum since the read
LostUpdateRaceWitness ==
  /\ last.op = "add" /\ last.ops = 2 /\ last.ret.kind = "line"
  /\ IsPositiveInteger(last.quantity.n)
  /\ ~last.changed
  /\ \E d \in LinesOfBook(cart, last.id) : RetLine(d) = last.ret

\* C23: over the life of the process MongoClient.connect creates at most one
\* client, also when calls of connectToDatabase overlap before a connection
\* is cached, and every call returns the same handles.
SingleSharedConnection ==
  /\ conn.clients <= 1
  /\ \A c \in ConnCallers, d \in ConnCallers :
       (conn.call[c].returned # NoHandles /\ conn.call[d].returned # NoHandles)
       => conn.call[c].returned = conn.call[d].returned

\* C24: an add with a well-formed book id and a positive whole quantity
\* returns a line of that book and never throws, also when removes, clears
\* and set-quantities to 0 land between its round-trips.
AddAlwaysReturnsLine ==
  ( /\ last.op = "add" /\ Invoked(last)
    /\ ObjectIdIsValid(last.id) /\ IsPositiveInteger(last.quantity.n) )
  => /\ last.ret.kind = "line"
     /\ \A l \in last.ret.lines : l.bookId = ToHexString(NewObjectId(last.id))

\* C25: DELETE /api/books/:id answers 200 only when the request deleted the
\* book, and 404 or 200 in every run without a storage failure, never 500,
\* also when two DELETE requests for one book overlap.
DeleteAnswersDeletion ==
  ( /\ last.op = "deleteBook" /\ last.via = "route"
    /\ last.ret # StorageFailure )
  => /\ last.resp.status \in {200, 404}
     /\ last.resp.status = 200 => last.changed
     /\ last.resp.status = 404 => ~last.changed

\* C26: when the Navbar is mounted, no fetch of it is in flight and no page
\* handler or cart request is under way, the Navbar's cartItemCount is the
\* sum of the quantities of the lines in the cart.
BadgeConverges ==
  ( /\ navbar.mounted
    /\ FreeFetches(navbar) = FetchIds
    /\ view.pc = "idle" /\ AllIdle )
  => navbar.cartItemCount = SumQuantities(GetCartResult(cart))

\* the lines with another _id than oid are the same in c and in c2
Untouched(c, c2, oid) ==
  {d \in c2 : d._id # oid} = {d \in c : d._id # oid}

\* the line with _id oid is in c2 what it is in c, but for its quantity
OnlyQuantity(c, c2, oid) ==
  /\ Cardinality(FindById(c2, oid)) = Cardinality(FindById(c, oid))
  /\ \A d \in FindById(c, oid) :
       \E e \in FindById(c2, oid) : e = [d EXCEPT !.quantity = e.quantity]

\* C27: the write of a merge, a set-quantity and a remove leave every line
\* but the one they name as it is; an insert adds one line and changes none;
\* a merge and a set-quantity with a quantity > 0 keep the _id, the bookId
\* and the addedAt of the line they write; the reads change nothing.
CartFrame ==
  [][ /\ \A p \in Procs :
           /\ (proc[p].pc = "update" /\ proc'[p].pc = "idle")
                => \A e \in proc[p].existingItem :
                     /\ Untouched(cart, cart', e._id)
                     /\ OnlyQuantity(cart, cart', e._id)
           /\ (proc[p].pc = "insert" /\ proc'[p].pc = "fetch")
                => /\ cart \subseteq cart'
                   /\ \A d \in cart' \ cart : d._id = proc'[p].insertedId
           /\ (proc[p].pc \in {"idle", "find", "fetch"} /\ proc'[p] # proc[p])
                => cart' = cart
      /\ ( /\ Completes /\ last'.op = "update" /\ Invoked(last')
           /\ ObjectIdIsValid(last'.id) )
         => /\ Untouched(cart, cart', NewObjectId(last'.id))
            /\ last'.quantity.n > 0
                 => OnlyQuantity(cart, cart', NewObjectId(last'.id))
      /\ ( /\ Completes /\ last'.op = "remove" /\ last'.ret.kind # "none"
           /\ ObjectIdIsValid(last'.id) )
         => Untouched(cart, cart', NewObjectId(last'.id)) ]_vars

\* a set-quantity with a quantity > 0 has changed the line it named while
\* the cart holds a line of another book
CartFrameWitness ==
  /\ last.op = "update" /\ Invoked(last) /\ last.quantity.n > 0
  /\ last.changed /\ last.ret.kind = "line"
  /\ Cardinality(cart) = 2
  /\ \E d \in cart, e \in cart :
       /\ ToHexString(d._id) = last.id
       /\ e.bookId # d.bookId

====
